---- MODULE Spec2Model ----
(***************************************************************************)
(* Model of the local-search walker of src/src/walk.c (hKis, a Kissat      *)
(* derivative): kissat_walking / kissat_walk, walker setup, the local      *)
(* search round, best tracking on the trail, export and teardown.          *)
(*                                                                         *)
(* Literals are encoded as in the solver: LIT(idx) = 2*idx, NOT flips the  *)
(* lowest bit.  Stacks are sequences; a C index i is element i+1.          *)
(* Quantities that can exceed 2^31-1 (references, BINIRR_CLAUSES, the      *)
(* arena size) are pairs [hi, lo] standing for hi * 2^31 + lo.             *)
(***************************************************************************)
EXTENDS Integers, Sequences, FiniteSets, TLC

(***************************************************************************)
(* Bounds of the model.                                                    *)
(***************************************************************************)
\* number of variables the walker can be given to flip
NumVars == 3
\* number of further variables of the solver, all inactive (fixed at the
\* root level, eliminated or unused); VARS counts them as well
InactiveVars == 5
\* largest step budget handed out by SET_EFFORT_LIMIT
MaxBudget == 40
\* the random draws are the fractions 0/RDen .. (RDen-1)/RDen
RDen == 4
\* a double is a multiple of 2^-ScoreBits; 1.0 is 2^ScoreBits units
ScoreBits == 1
\* break counts examined beyond the size of the score table
ExtraBreaks == 2

(***************************************************************************)
(* Program constants.                                                      *)
(***************************************************************************)
MAX_WALK_REF == 2147483647
\* UINT_MAX, written as a value above no trail size
INVALID_BEST == -1
\* content of counter.pos before the first push_unsat (malloc'ed memory)
UninitPos == -1
INITIAL_PHASE == 1

VARS == NumVars + InactiveVars
LITS == 2 * VARS
Vars == 0 .. (VARS - 1)
Lits == 0 .. (LITS - 1)

LIT(idx) == 2 * idx
NOT(lit) == IF lit % 2 = 0 THEN lit + 1 ELSE lit - 1
IDX(lit) == lit \div 2
NEGATED(lit) == lit % 2 = 1

\* stack access with C indices
PEEK_STACK(s, i) == s[i + 1]
POKE_STACK(s, i, e) == [s EXCEPT ![i + 1] = e]
POP_STACK(s) == SubSeq(s, 1, Len(s) - 1)
TOP_STACK(s) == s[Len(s)]

(***************************************************************************)
(* Wide unsigned numbers: [hi, lo] is hi * 2^31 + lo, 0 <= lo < 2^31.      *)
(***************************************************************************)
Wide(hi, lo) == [hi |-> hi, lo |-> lo]
Small(n) == Wide(0, n)
\* UINT_MAX as a reference: 2^32 - 1
INVALID_REF == Wide(1, MAX_WALK_REF)
\* conversion of a size_t / uint64_t to the 32 bit type 'reference'
ToReference(w) == Wide(w.hi % 2, w.lo)
\* w > MAX_WALK_REF
ExceedsMaxRef(w) == w.hi > 0

(***************************************************************************)
(* Doubles.  A score is a non-negative multiple of 2^-ScoreBits, held as   *)
(* its number of units; a product is rounded to the nearest unit, ties to  *)
(* even, so that repeated multiplication by base < 1 underflows to 0 as    *)
(* it does in IEEE arithmetic.  Other reals are fractions [num, den].      *)
(***************************************************************************)
One == 2 ^ ScoreBits
Frac(n, d) == [num |-> n, den |-> d]
RoundHalfEven(n, d) ==
  LET q == n \div d
      r == n % d
  IN  IF 2 * r < d THEN q
      ELSE IF 2 * r > d THEN q + 1
      ELSE IF q % 2 = 0 THEN q ELSE q + 1
\* x * (1 / cb) for a score x and cb = f.num / f.den
MulBase(x, cb) == RoundHalfEven(x * cb.den, cb.num)

\* control points (avg clause size, cb), both in hundredths
cbvals == << <<0, 200>>, <<300, 250>>, <<400, 285>>,
             <<500, 370>>, <<600, 510>>, <<700, 740>> >>

RECURSIVE fit_index(_, _)
\* the while loop of fit_cbval; i is the C index, size a fraction
fit_index(i, size) ==
  IF i + 2 < Len(cbvals)
       /\ (cbvals[i + 1][1] * size.den > 100 * size.num
           \/ cbvals[i + 2][1] * size.den < 100 * size.num)
  THEN fit_index(i + 1, size)
  ELSE i

fit_cbval(size) ==
  LET i == fit_index(0, size)
      x1 == cbvals[i + 1][1]
      x2 == cbvals[i + 2][1]
      y1 == cbvals[i + 1][2]
      y2 == cbvals[i + 2][2]
      dx == x2 - x1
      dy == y2 - y1
  IN  \* dy * (size - x1) / dx + y1
      Frac(dy * (100 * size.num - x1 * size.den) + y1 * dx * size.den,
           100 * dx * size.den)

\* kissat_average (a, b)
kissat_average(a, b) == IF b = 0 THEN Frac(0, 1) ELSE Frac(a, b)

RECURSIVE score_entries(_, _)
\* the second loop of init_score_table: table[i++] = epsilon = next
score_entries(next, cb) ==
  IF next = 0 THEN <<>>
  ELSE <<next>> \o score_entries(MulBase(next, cb), cb)

\* the choice of cb with the parities exchanged
break_multiplier_odd_two(nwalks, size) ==
  IF nwalks % 2 = 1 THEN Frac(2, 1) ELSE fit_cbval(size)

\* cb as chosen at the top of init_score_table
break_multiplier(nwalks, size) ==
  IF nwalks % 2 = 1 THEN fit_cbval(size) ELSE Frac(2, 1)

init_score_table(nwalks, size) ==
  LET cb == break_multiplier(nwalks, size)
      tab == score_entries(One, cb)
  IN  [table |-> tab, exponents |-> Len(tab), epsilon |-> tab[Len(tab)]]

\* scale_score without the epsilon of the last table entry
scale_score_zero_tail(tab, breaks) ==
  IF breaks < tab.exponents THEN tab.table[breaks + 1] ELSE 0

scale_score(tab, breaks) ==
  IF breaks < tab.exponents THEN tab.table[breaks + 1] ELSE tab.epsilon

(***************************************************************************)
(* The unsat stack and the counters.  A walker core w is a record          *)
(*   counters : sequence of [count, pos], counter_ref r is element r + 1   *)
(*   unsat    : the unsat stack of counter_refs                            *)
(*   current  : walker->current                                            *)
(*   steps    : what the running operation will ADD to walk_steps          *)
(*   make_steps : the steps counted by make_clauses                        *)
(*   res      : result of the last pop_unsat                               *)
(*   ok       : no assertion of the code has failed so far                 *)
(***************************************************************************)
push_unsat(w, counter_ref) ==
  [w EXCEPT !.counters[counter_ref + 1].pos = Len(w.unsat),
            !.unsat = Append(w.unsat, counter_ref)]

\* pop_unsat that forgets to update the pos of the counter it moves
pop_unsat_stale_pos(w, counter_ref, pos) ==
  IF Len(w.unsat) = 0 \/ pos < 0 \/ pos >= Len(w.unsat)
  THEN [w EXCEPT !.ok = FALSE, !.res = FALSE]
  ELSE
  LET other_counter_ref == TOP_STACK(w.unsat)
  IN  IF counter_ref # other_counter_ref
      THEN [w EXCEPT
              !.current = w.current - 1,
              !.unsat = POKE_STACK(POP_STACK(w.unsat), pos, other_counter_ref),
              !.res = TRUE]
      ELSE [w EXCEPT
              !.current = w.current - 1,
              !.unsat = POP_STACK(w.unsat),
              !.res = FALSE]

pop_unsat(w, counter_ref, pos) ==
  IF Len(w.unsat) = 0 \/ pos < 0 \/ pos >= Len(w.unsat)
  THEN [w EXCEPT !.ok = FALSE, !.res = FALSE]
  ELSE
  LET other_counter_ref == TOP_STACK(w.unsat)
      current == w.current - 1
      pre == /\ w.current # 0
             /\ w.counters[counter_ref + 1].pos = pos
             /\ w.current = Len(w.unsat)
  IN  IF counter_ref # other_counter_ref
      THEN [w EXCEPT
              !.ok = /\ w.ok /\ pre
                     /\ w.counters[other_counter_ref + 1].pos = current
                     /\ pos < w.counters[other_counter_ref + 1].pos,
              !.current = current,
              !.counters[other_counter_ref + 1].pos = pos,
              !.unsat = POKE_STACK(POP_STACK(w.unsat), pos, other_counter_ref),
              !.res = TRUE]
      ELSE [w EXCEPT
              !.ok = w.ok /\ pre,
              !.current = current,
              !.unsat = POP_STACK(w.unsat),
              !.res = FALSE]

RECURSIVE make_loop(_, _, _)
\* the loop of make_clauses over the watches of the flipped literal
make_loop(w, ws, k) ==
  IF k > Len(ws) THEN w
  ELSE
  LET counter_ref == ws[k]
      old == w.counters[counter_ref + 1]
      w1 == [w EXCEPT !.steps = w.steps + 1,
                      !.counters[counter_ref + 1].count = old.count + 1]
  IN  IF old.count # 0 THEN make_loop(w1, ws, k + 1)
      ELSE LET w2 == pop_unsat(w1, counter_ref, old.pos)
           IN  make_loop([w2 EXCEPT
                            !.steps = w2.steps + (IF w2.res THEN 1 ELSE 0)],
                         ws, k + 1)

\* make_clauses that increments the counts but never calls pop_unsat
make_clauses_no_pop(w, ws) ==
  [w EXCEPT
     !.steps = w.steps + 1 + Len(ws),
     !.counters = [r \in 1 .. Len(w.counters) |->
                     IF \E k \in 1 .. Len(ws) : ws[k] = r - 1
                     THEN [w.counters[r] EXCEPT !.count = @ + 1]
                     ELSE w.counters[r]]]

make_clauses(w, ws) == make_loop([w EXCEPT !.steps = w.steps + 1], ws, 1)

RECURSIVE break_loop(_, _, _)
\* the loop of break_clauses over the watches of the negated flipped literal
break_loop(w, ws, k) ==
  IF k > Len(ws) THEN w
  ELSE
  LET counter_ref == ws[k]
      old == w.counters[counter_ref + 1]
      w1 == [w EXCEPT !.steps = w.steps + 1,
                      !.ok = w.ok /\ old.count # 0,
                      !.counters[counter_ref + 1].count = old.count - 1]
  IN  IF old.count - 1 # 0 THEN break_loop(w1, ws, k + 1)
      ELSE break_loop(push_unsat(w1, counter_ref), ws, k + 1)

\* break_clauses that walks the watches without decrementing a count
break_clauses_no_decrement(w, ws) ==
  [w EXCEPT !.steps = w.steps + 1 + Len(ws)]

\* break_clauses that forgets ADD (walk_steps, steps)
break_clauses_uncounted(w, ws) ==
  [break_loop(w, ws, 1) EXCEPT !.steps = w.steps]

break_clauses(w, ws) == break_loop([w EXCEPT !.steps = w.steps + 1], ws, 1)

currently_unsatified(w) == Len(w.unsat)

(***************************************************************************)
(* Walker setup.                                                           *)
(***************************************************************************)
\* the phase choice with the saved phase taking precedence over the target
imported_phase_saved_first(idx, saved, target, stable, warmup) ==
  LET v0 == saved[idx]
      v1 == IF v0 = 0 /\ stable /\ ~warmup THEN target[idx] ELSE v0
  IN  IF v1 = 0 THEN INITIAL_PHASE ELSE v1

\* the phase import_decision_phases chooses for an active variable
imported_phase(idx, saved, target, stable, warmup) ==
  LET v0 == IF stable /\ ~warmup THEN target[idx] ELSE 0
      v1 == IF v0 = 0 THEN saved[idx] ELSE v0
  IN  IF v1 = 0 THEN INITIAL_PHASE ELSE v1

\* import_decision_phases that writes the negated phase back to saved
import_decision_phases_saves_negation(values, saved, target, stable, warmup, active) ==
  [values |->
     [lit \in Lits |->
        IF ~active[IDX(lit)] THEN values[lit]
        ELSE IF NEGATED(lit)
             THEN 0 - imported_phase(IDX(lit), saved, target, stable, warmup)
             ELSE imported_phase(IDX(lit), saved, target, stable, warmup)],
   saved |->
     [idx \in Vars |->
        IF ~active[idx] THEN saved[idx]
        ELSE 0 - imported_phase(idx, saved, target, stable, warmup)]]

\* import_decision_phases, writing into the zeroed vector 'values'
import_decision_phases(values, saved, target, stable, warmup, active) ==
  [values |->
     [lit \in Lits |->
        IF ~active[IDX(lit)] THEN values[lit]
        ELSE IF NEGATED(lit)
             THEN 0 - imported_phase(IDX(lit), saved, target, stable, warmup)
             ELSE imported_phase(IDX(lit), saved, target, stable, warmup)],
   saved |->
     [idx \in Vars |->
        IF ~active[idx] THEN saved[idx]
        ELSE imported_phase(idx, saved, target, stable, warmup)]]

make_tagged(binary, ref) == [binary |-> binary, ref |-> ref]

\* kissat_push_large_watch
push_large_watch(watches, lit, counter_ref) ==
  [watches EXCEPT ![lit] = Append(watches[lit], counter_ref)]

\* a connection state c: refs, counters, watches, unsat, size, arena, ok;
\* the next counter_ref is Len(c.refs)
EmptyConnection(arena) ==
  [refs |-> <<>>, counters |-> <<>>, watches |-> [lit \in Lits |-> <<>>],
   unsat |-> <<>>, size |-> 0, arena |-> arena, ok |-> TRUE]

RECURSIVE connect_binary_loop_no_skip(_, _, _, _, _)
\* the loop of connect_binary_counters without the skip of pairs that
\* have a zero-valued literal
connect_binary_loop_no_skip(c, values, binaries, clauses, k) ==
  IF k > Len(binaries) THEN c
  ELSE
  LET counter_ref == Len(c.refs)
      count == (IF values[binaries[k][1]] > 0 THEN 1 ELSE 0)
               + (IF values[binaries[k][2]] > 0 THEN 1 ELSE 0)
      c1 == [c EXCEPT
               !.refs = Append(c.refs, make_tagged(TRUE, k - 1)),
               !.watches = push_large_watch(
                             push_large_watch(c.watches, binaries[k][1],
                                              counter_ref),
                             binaries[k][2], counter_ref),
               !.counters = Append(c.counters,
                                   [count |-> count, pos |-> UninitPos])]
  IN  connect_binary_loop_no_skip(
        IF count = 0 THEN push_unsat(c1, counter_ref) ELSE c1,
        values, binaries, clauses, k + 1)

RECURSIVE connect_binary_loop(_, _, _, _, _)
connect_binary_loop(c, values, binaries, clauses, k) ==
  IF k > Len(binaries) THEN c
  ELSE
  LET binary_ref == k - 1
      first == binaries[k][1]
      second == binaries[k][2]
      first_value == values[first]
      second_value == values[second]
      counter_ref == Len(c.refs)
      count == (IF first_value > 0 THEN 1 ELSE 0)
               + (IF second_value > 0 THEN 1 ELSE 0)
      c1 == [c EXCEPT
               !.ok = c.ok /\ counter_ref < clauses,
               !.refs = Append(c.refs, make_tagged(TRUE, binary_ref)),
               !.watches = push_large_watch(
                             push_large_watch(c.watches, first, counter_ref),
                             second, counter_ref),
               !.counters = Append(c.counters,
                                   [count |-> count, pos |-> UninitPos])]
  IN  IF first_value = 0 \/ second_value = 0
      THEN connect_binary_loop(c, values, binaries, clauses, k + 1)
      ELSE connect_binary_loop(
             IF count = 0 THEN push_unsat(c1, counter_ref) ELSE c1,
             values, binaries, clauses, k + 1)

\* connect_binary_counters; the returned counter_ref is Len(result.refs)
connect_binary_counters(c, values, binaries, clauses) ==
  LET c1 == connect_binary_loop(c, values, binaries, clauses, 1)
  IN  [c1 EXCEPT !.size = c.size + 2 * Len(c1.refs)]

RECURSIVE watch_literals(_, _, _, _)
\* the second literal loop of connect_large_counters: watch the literals
\* with a non-zero walker value
watch_literals(watches, lits, values, counter_ref) ==
  IF lits = <<>> THEN watches
  ELSE watch_literals(
         IF values[Head(lits)] = 0 THEN watches
         ELSE push_large_watch(watches, Head(lits), counter_ref),
         Tail(lits), values, counter_ref)

\* number of literals of lits with the given value
CountValue(lits, values, v) ==
  Cardinality({i \in 1 .. Len(lits) : values[lits[i]] = v})

RECURSIVE connect_large_loop_no_mark(_, _, _, _, _, _)
\* the loop of connect_large_counters that passes over a clause satisfied
\* by the host's values without marking it garbage
connect_large_loop_no_mark(c, values, saved, last_irredundant, clauses, k) ==
  IF k > Len(c.arena) THEN c
  ELSE IF last_irredundant # INVALID_REF /\ k > last_irredundant.lo THEN c
  ELSE
  LET cl == c.arena[k]
      counter_ref == Len(c.refs)
      count == CountValue(cl.lits, values, 1)
      c1 == [c EXCEPT
               !.refs = Append(c.refs, make_tagged(FALSE, k)),
               !.watches = watch_literals(c.watches, cl.lits, values,
                                          counter_ref),
               !.counters = Append(c.counters,
                                   [count |-> count, pos |-> UninitPos]),
               !.size = c.size + Len(cl.lits)
                          - CountValue(cl.lits, values, 0)]
  IN  IF cl.garbage \/ cl.redundant
           \/ \E i \in 1 .. Len(cl.lits) : saved[cl.lits[i]] > 0
      THEN connect_large_loop_no_mark(c, values, saved, last_irredundant,
                                      clauses, k + 1)
      ELSE connect_large_loop_no_mark(
             IF count = 0 THEN push_unsat(c1, counter_ref) ELSE c1,
             values, saved, last_irredundant, clauses, k + 1)

RECURSIVE connect_large_loop(_, _, _, _, _, _)
connect_large_loop(c, values, saved, last_irredundant, clauses, k) ==
  IF k > Len(c.arena) THEN c
  ELSE IF last_irredundant # INVALID_REF /\ k > last_irredundant.lo THEN c
  ELSE
  LET cl == c.arena[k]
      counter_ref == Len(c.refs)
      count == CountValue(cl.lits, values, 1)
      size == Len(cl.lits) - CountValue(cl.lits, values, 0)
      c1 == [c EXCEPT
               !.ok = /\ c.ok
                      /\ counter_ref < clauses
                      /\ \A i \in 1 .. Len(cl.lits) :
                           values[cl.lits[i]] = 0 => saved[cl.lits[i]] < 0,
               !.refs = Append(c.refs, make_tagged(FALSE, k)),
               !.watches = watch_literals(c.watches, cl.lits, values,
                                          counter_ref),
               !.counters = Append(c.counters,
                                   [count |-> count, pos |-> UninitPos]),
               !.size = c.size + size]
  IN  IF cl.garbage \/ cl.redundant
      THEN connect_large_loop(c, values, saved, last_irredundant, clauses,
                              k + 1)
      ELSE IF \E i \in 1 .. Len(cl.lits) : saved[cl.lits[i]] > 0
      THEN \* kissat_mark_clause_as_garbage
           connect_large_loop([c EXCEPT !.arena[k].garbage = TRUE],
                              values, saved, last_irredundant, clauses, k + 1)
      ELSE connect_large_loop(
             IF count = 0 THEN push_unsat(c1, counter_ref) ELSE c1,
             values, saved, last_irredundant, clauses, k + 1)

connect_large_counters(c, values, saved, last_irredundant, clauses) ==
  connect_large_loop(c, values, saved, last_irredundant, clauses, 1)

\* dereference_literals
dereference_literals(refs, binaries, arena, counter_ref) ==
  LET tagged == refs[counter_ref + 1]
  IN  IF tagged.binary THEN binaries[tagged.ref + 1]
      ELSE arena[tagged.ref].lits

(***************************************************************************)
(* Picking and flipping.                                                   *)
(***************************************************************************)
\* break_value: [res, steps]
break_value(counters, watches, lit) ==
  LET ws == watches[NOT(lit)]
  IN  [res |-> Cardinality({i \in 1 .. Len(ws) :
                              counters[ws[i] + 1].count = 1}),
       steps |-> 1 + Len(ws)]

\* the literals of lits with a non-zero value, in stored order
RECURSIVE assigned_literals(_, _)
assigned_literals(lits, values) ==
  IF lits = <<>> THEN <<>>
  ELSE IF values[Head(lits)] = 0 THEN assigned_literals(Tail(lits), values)
  ELSE <<Head(lits)>> \o assigned_literals(Tail(lits), values)

RECURSIVE SumSeq(_)
SumSeq(s) == IF s = <<>> THEN 0 ELSE Head(s) + SumSeq(Tail(s))

\* the second loop of pick_literal breaking at the first scored literal
threshold_index_first(scores, threshold, sum, k) == 1

RECURSIVE threshold_index(_, _, _, _)
\* the second loop of pick_literal: first index whose running sum exceeds
\* the threshold, or 0 when the loop ends without a break
threshold_index(scores, threshold, sum, k) ==
  IF k > Len(scores) THEN 0
  ELSE IF threshold < sum + scores[k] THEN k
  ELSE threshold_index(scores, threshold, sum + scores[k], k + 1)

\* pick_literal for the draw random = r / RDen; the result carries the
\* picked literal (-1 for INVALID_LIT), the position drawn in the unsat
\* stack and the steps added by break_value
pick_literal(values, refs, binaries, arena, counters, watches, unsat, current, flipped, tab, r) ==
  LET pos == flipped % current
      counter_ref == PEEK_STACK(unsat, pos)
      lits == assigned_literals(
                dereference_literals(refs, binaries, arena, counter_ref),
                values)
      brk == [i \in 1 .. Len(lits) |->
                break_value(counters, watches, lits[i])]
      scores == [i \in 1 .. Len(lits) |-> scale_score(tab, brk[i].res)]
      sum == SumSeq(scores)
      threshold == RoundHalfEven(sum * r, RDen)
      hit == threshold_index(scores, threshold, 0, 1)
  IN  [lit |-> IF Len(lits) = 0 THEN -1
               ELSE IF hit = 0 THEN lits[Len(lits)] ELSE lits[hit],
       pos |-> pos,
       counter_ref |-> counter_ref,
       steps |-> SumSeq([i \in 1 .. Len(lits) |-> brk[i].steps]),
       ok |-> /\ current = Len(unsat)
              /\ Len(lits) > 0
              /\ sum > 0
              /\ \A i \in 1 .. Len(lits) : values[lits[i]] < 0]

\* flip_literal that writes the flipped literal but not its negation
flip_values_one_sided(values, flip) ==
  [values EXCEPT ![flip] = 0 - values[flip]]

\* the assignment after flip_literal's two writes
flip_values(values, flip) ==
  [values EXCEPT ![flip] = 0 - values[flip], ![NOT(flip)] = values[flip]]

\* flip_literal without the final update of current
flip_literal_stale_current(w, values, watches, flip) ==
  LET w1 == make_clauses(w, watches[flip])
      w2 == break_clauses(w1, watches[NOT(flip)])
  IN  [w2 EXCEPT !.make_steps = w1.steps]

\* flip_literal with the break pass before the make pass
flip_literal_break_first(w, values, watches, flip) ==
  LET w0 == [w EXCEPT !.ok = w.ok /\ values[flip] < 0]
      w1 == break_clauses(w0, watches[NOT(flip)])
      w2 == make_clauses(w1, watches[flip])
  IN  [w2 EXCEPT !.current = currently_unsatified(w2),
                 !.make_steps = w2.steps - w1.steps]

\* flip_literal on the walker core w: make pass, break pass, current
flip_literal(w, values, watches, flip) ==
  LET w0 == [w EXCEPT !.ok = w.ok /\ values[flip] < 0]
      w1 == make_clauses(w0, watches[flip])
      w2 == break_clauses(w1, watches[NOT(flip)])
  IN  [w2 EXCEPT !.current = currently_unsatified(w2),
                 !.make_steps = w1.steps]

(***************************************************************************)
(* Best tracking.  A tracker t is [trail, best, saved, ok] with saved the  *)
(* solver's phases.saved.                                                  *)
(***************************************************************************)
RECURSIVE save_prefix(_, _, _)
\* the first loop of save_walker_trail over trail[0..best)
save_prefix(saved, trail, n) ==
  IF n = 0 THEN saved
  ELSE LET lit == trail[n]
           prev == save_prefix(saved, trail, n - 1)
       IN  [prev EXCEPT ![IDX(lit)] = IF NEGATED(lit) THEN -1 ELSE 1]

\* save_walker_trail that saves the prefix and resets best but leaves the
\* trail as it is
save_walker_trail_no_shift(t, keep) ==
  [t EXCEPT !.saved = save_prefix(t.saved, t.trail, t.best),
            !.best = IF keep THEN 0 ELSE t.best]

save_walker_trail(t, keep) ==
  LET size_trail == Len(t.trail)
      kept == size_trail - t.best
      t1 == [t EXCEPT
               !.ok = t.ok /\ t.best # INVALID_BEST /\ t.best <= size_trail,
               !.saved = save_prefix(t.saved, t.trail, t.best)]
      shifted == SubSeq(t.trail, t.best + 1, size_trail)
  IN  IF ~keep THEN t1
      ELSE [t1 EXCEPT
              !.trail = shifted,
              !.ok = /\ t1.ok
                     /\ size_trail - Len(shifted) = t.best
                     /\ Len(shifted) = kept,
              !.best = 0]

\* push_flipped that pushes without looking at the limit VARS / 4 + 1
push_flipped_unbounded(t, flipped) ==
  IF t.best = INVALID_BEST THEN t
  ELSE [t EXCEPT !.trail = Append(t.trail, flipped)]

\* push_flipped that clears a full trail without a best position but keeps
\* the marker valid
push_flipped_keeps_valid(t, flipped) ==
  IF t.best = INVALID_BEST THEN t
  ELSE IF Len(t.trail) < VARS \div 4 + 1
  THEN [t EXCEPT !.trail = Append(t.trail, flipped)]
  ELSE IF t.best # 0
  THEN LET t1 == save_walker_trail(t, TRUE)
       IN  [t1 EXCEPT !.trail = Append(t1.trail, flipped)]
  ELSE [t EXCEPT !.trail = <<>>]

push_flipped(t, flipped) ==
  IF t.best = INVALID_BEST
  THEN [t EXCEPT !.ok = t.ok /\ t.trail = <<>>]
  ELSE
  LET size_trail == Len(t.trail)
      limit == VARS \div 4 + 1
      t0 == [t EXCEPT !.ok = t.ok /\ t.best <= size_trail]
  IN  IF size_trail < limit
      THEN [t0 EXCEPT !.trail = Append(t.trail, flipped)]
      ELSE IF t.best # 0
      THEN LET t1 == save_walker_trail(t0, TRUE)
           IN  [t1 EXCEPT !.trail = Append(t1.trail, flipped)]
      ELSE [t0 EXCEPT !.trail = <<>>, !.best = INVALID_BEST]

\* save_all_values that copies the values but leaves the marker invalid
save_all_values_stays_invalid(t, values) ==
  [t EXCEPT
     !.saved = [idx \in Vars |->
                  IF values[LIT(idx)] # 0 THEN values[LIT(idx)]
                  ELSE t.saved[idx]]]

save_all_values(t, values) ==
  [t EXCEPT
     !.ok = t.ok /\ t.trail = <<>> /\ t.best = INVALID_BEST,
     !.saved = [idx \in Vars |->
                  IF values[LIT(idx)] # 0 THEN values[LIT(idx)]
                  ELSE t.saved[idx]],
     !.best = 0]

\* update_best that leaves the best marker where it was
update_best_keeps_marker(t, values) ==
  IF t.best = INVALID_BEST THEN save_all_values(t, values) ELSE t

\* the part of update_best that acts on the tracker
update_best(t, values) ==
  IF t.best = INVALID_BEST THEN save_all_values(t, values)
  ELSE [t EXCEPT !.best = Len(t.trail)]

\* save_final_minimum: the tracker and whether walk_improved is counted
save_final_minimum(t, minimum, initial) ==
  IF minimum = initial THEN [t |-> t, improved |-> FALSE]
  ELSE IF t.best = 0 \/ t.best = INVALID_BEST
  THEN [t |-> t, improved |-> TRUE]
  ELSE [t |-> save_walker_trail(t, FALSE), improved |-> TRUE]

(***************************************************************************)
(* State.                                                                  *)
(***************************************************************************)
VARIABLES
  pc,               \* position in kissat_walk
  values,           \* the vector solver->values points to
  phases_saved,     \* solver->phases.saved
  phases_target,    \* solver->phases.target
  stable,           \* solver->stable
  warmup,           \* GET_OPTION (warmup)
  active,           \* flags[idx].active
  arena,            \* the large clauses: [lits, garbage, redundant]
  binaries,         \* the irredundant binary clauses (litpairs)
  last_irredundant, \* solver->last_irredundant
  arena_size,       \* SIZE_STACK (solver->arena)
  binirr,           \* BINIRR_CLAUSES
  pol_activity,     \* the array solver->pol_activity points to
  dense,            \* the solver is in dense mode
  watches,          \* the large watches pushed in dense mode
  stats,            \* statistics: walks, walk_steps, flipped, ...
  warmed,           \* kissat_warmup has run
  terminate,        \* what TERMINATED (walk_terminated_1) returns
  wsaved,           \* the vector walker->saved points to
  refs,             \* walker->refs
  counters,         \* walker->counters
  unsat,            \* walker->unsat
  trail,            \* walker->trail
  best,             \* walker->best
  clauses,          \* walker->clauses
  current,          \* walker->current
  initial,          \* walker->initial
  minimum,          \* walker->minimum
  limit,            \* walker->limit
  flipped,          \* walker->flipped
  size,             \* walker->size
  table,            \* walker->table, exponents, epsilon
  assert_ok,        \* no assertion of the walker has failed
  pre,              \* the host state kissat_walk was called on
  seen_min,         \* fewest unsatisfied clauses seen at a step boundary
  last_pick         \* what the last local_search_step picked and did

host_vars == <<values, phases_saved, phases_target, stable, warmup, active,
               arena, binaries, last_irredundant, arena_size, binirr,
               pol_activity, dense, watches, stats, warmed, terminate>>
walker_vars == <<wsaved, refs, counters, unsat, trail, best, clauses,
                 current, initial, minimum, limit, flipped, size, table,
                 assert_ok>>
vars == <<pc, host_vars, walker_vars, pre, seen_min, last_pick>>

(***************************************************************************)
(* The instances the walker is run on.                                     *)
(***************************************************************************)
Phase == {-1, 0, 1}
\* the last variable that occurs in a clause
Last == NumVars - 1
AllPos == [i \in 1 .. NumVars |-> LIT(i - 1)]
AllNeg == [i \in 1 .. NumVars |-> NOT(LIT(i - 1))]
Clause(lits, garbage, redundant) ==
  [lits |-> lits, garbage |-> garbage, redundant |-> redundant]
Unassigned == [lit \in Lits |-> 0]
AllActive == [idx \in Vars |-> idx < NumVars]
\* root-level assignment fixing the last variable to false
LastFalse ==
  [lit \in Lits |-> IF lit = LIT(Last) THEN -1
                    ELSE IF lit = NOT(LIT(Last)) THEN 1 ELSE 0]

\* root-level assignment fixing the last variable to false and two of the
\* further variables to true and to false
RootFixed ==
  [lit \in Lits |->
     IF lit = LIT(Last) \/ lit = NOT(LIT(NumVars)) \/ lit = LIT(NumVars + 1)
     THEN -1
     ELSE IF lit = NOT(LIT(Last)) \/ lit = LIT(NumVars)
               \/ lit = NOT(LIT(NumVars + 1))
     THEN 1 ELSE 0]

\* unsatisfiable: all four binary clauses over variables 0 and 1
UnsatInstance ==
  [active |-> AllActive, values |-> Unassigned,
   binaries |-> << <<0, 2>>, <<0, 3>>, <<1, 2>>, <<1, 3>> >>,
   arena |-> << Clause(AllPos, FALSE, FALSE), Clause(AllNeg, FALSE, TRUE) >>,
   last_irredundant |-> Small(1)]

\* satisfiable, all variables of the clauses active
SatInstance ==
  [active |-> AllActive, values |-> Unassigned,
   binaries |-> << <<0, 2>> >>,
   arena |-> << Clause(AllPos, FALSE, FALSE), Clause(AllNeg, FALSE, FALSE),
                Clause(<<1, 2, NOT(LIT(Last))>>, FALSE, FALSE) >>,
   last_irredundant |-> Small(3)]

\* three variables are fixed at the root level and inactive; a binary and
\* a large clause over them are satisfied there but not yet collected
FixedInstance ==
  [active |-> [idx \in Vars |-> idx < Last], values |-> RootFixed,
   binaries |-> << <<0, 2>>, <<1, NOT(LIT(Last))>>,
                   <<LIT(NumVars), LIT(Last)>> >>,
   arena |-> << Clause(<<0, 3, LIT(Last)>>, FALSE, FALSE),
                Clause(<<1, 3, NOT(LIT(Last))>>, FALSE, FALSE),
                Clause(<<1, 2, LIT(Last)>>, FALSE, FALSE),
                Clause(<<0, 2, LIT(Last)>>, TRUE, FALSE),
                Clause(<<LIT(Last), LIT(NumVars + 1), LIT(NumVars)>>,
                       FALSE, FALSE),
                Clause(AllNeg, FALSE, TRUE) >>,
   last_irredundant |-> Small(5)]

\* no irredundant large clause at all
BinaryInstance ==
  [active |-> AllActive, values |-> Unassigned,
   binaries |-> << <<1, 3>>, <<2, LIT(Last)>>, <<0, LIT(Last)>> >>,
   arena |-> << Clause(AllPos, FALSE, TRUE) >>,
   last_irredundant |-> INVALID_REF]

\* contradictory on variables 0 and 1 once the last variable is fixed to
\* false at the root level: every large clause ends in a false literal
FixedUnsatInstance ==
  [active |-> [idx \in Vars |-> idx < Last], values |-> LastFalse,
   binaries |-> << <<0, 2>>, <<1, 3>> >>,
   arena |-> << Clause(<<0, 3, LIT(Last)>>, FALSE, FALSE),
                Clause(<<1, 2, LIT(Last)>>, FALSE, FALSE) >>,
   last_irredundant |-> Small(2)]

\* binary clauses in which a flip that makes one clause breaks another
ChainInstance ==
  [active |-> AllActive, values |-> Unassigned,
   binaries |-> << <<0, 2>>, <<2, 4>>, <<0, 5>>, <<1, 2>>, <<3, 5>> >>,
   arena |-> << Clause(AllNeg, FALSE, TRUE) >>,
   last_irredundant |-> INVALID_REF]

Instances ==
  {UnsatInstance, SatInstance, FixedInstance, FixedUnsatInstance,
   BinaryInstance, ChainInstance}

\* BINIRR_CLAUSES of an instance: binary plus irredundant large clauses
CountBinIrr(inst) ==
  Len(inst.binaries)
  + Cardinality({k \in 1 .. Len(inst.arena) :
                   ~inst.arena[k].garbage /\ ~inst.arena[k].redundant})

\* sizes no arena of the model can show: only the gate reads them
HugeGates ==
  { [last |-> Wide(1, 0), asize |-> Wide(1, 8), binirr |-> Small(3)],
    [last |-> INVALID_REF, asize |-> Wide(1, 0), binirr |-> Small(3)],
    [last |-> Small(MAX_WALK_REF), asize |-> Wide(1, 0),
     binirr |-> Wide(1, 0)],
    [last |-> INVALID_REF, asize |-> Small(MAX_WALK_REF),
     binirr |-> Wide(2, 0)] }

\* saved phases: no phase saved yet for any variable, or a phase saved for
\* every variable of the clauses except possibly the first one
SavedChoices ==
  { [idx \in Vars |-> 0] }
  \cup { [idx \in Vars |-> IF idx < NumVars THEN p[idx] ELSE 0] :
            p \in { q \in [0 .. (NumVars - 1) -> Phase] :
                      \A idx \in 1 .. (NumVars - 1) : q[idx] # 0 } }

TargetChoices ==
  { [idx \in Vars |-> IF idx = 0 THEN 0 ELSE IF idx = 1 THEN -1 ELSE 1] }

NoTable == [table |-> <<>>, exponents |-> 0, epsilon |-> 0]
NoPick == [lit |-> -1, pos |-> 0, counter_ref |-> 0, steps |-> 0,
           make_steps |-> 0, break_steps |-> 0, swaps |-> 0,
           flip_ok |-> TRUE, trail_ok |-> TRUE, flushed |-> 0]

InitWalkerFields ==
  /\ wsaved = Unassigned
  /\ refs = <<>>
  /\ counters = <<>>
  /\ unsat = <<>>
  /\ trail = <<>>
  /\ best = 0
  /\ clauses = 0
  /\ current = 0
  /\ initial = 0
  /\ minimum = 0
  /\ limit = 0
  /\ flipped = 0
  /\ size = Frac(0, 1)
  /\ table = NoTable
  /\ assert_ok = TRUE
  /\ seen_min = 0
  /\ last_pick = NoPick

Init ==
  /\ pc = "idle"
  /\ \E inst \in Instances :
       /\ active = inst.active
       /\ values = inst.values
       /\ binaries = inst.binaries
       /\ arena = inst.arena
       /\ \/ /\ last_irredundant = inst.last_irredundant
             /\ arena_size = Small(Len(inst.arena))
             /\ binirr = Small(CountBinIrr(inst))
             /\ phases_saved \in SavedChoices
             /\ phases_target \in TargetChoices
             /\ stable \in BOOLEAN
             /\ warmup \in BOOLEAN
             /\ \E w \in 0 .. 1 :
                  stats = [walks |-> w, walk_steps |-> 0, flipped |-> 0,
                           walk_decisions |-> 0, walk_improved |-> 0]
          \/ /\ inst = BinaryInstance
             /\ \E g \in HugeGates :
                  /\ last_irredundant = g.last
                  /\ arena_size = g.asize
                  /\ binirr = g.binirr
             /\ phases_saved = [idx \in Vars |-> 0]
             /\ phases_target \in TargetChoices
             /\ stable = FALSE
             /\ warmup \in BOOLEAN
             /\ stats = [walks |-> 0, walk_steps |-> 0, flipped |-> 0,
                         walk_decisions |-> 0, walk_improved |-> 0]
  /\ pol_activity = [lit \in Lits |-> 1 + (lit % 2)]
  /\ dense = FALSE
  /\ watches = [lit \in Lits |-> <<>>]
  /\ warmed = FALSE
  /\ terminate = FALSE
  /\ InitWalkerFields
  /\ pre = [values |-> values, phases_saved |-> phases_saved,
            pol_activity |-> pol_activity, arena |-> arena]

(***************************************************************************)
(* Gating.                                                                 *)
(***************************************************************************)
\* kissat_walking without the replacement of the INVALID_REF sentinel
kissat_walking_no_sentinel(last_irr, asize, nclauses) ==
  ~ExceedsMaxRef(last_irr) /\ ~ExceedsMaxRef(nclauses)

\* kissat_walking
kissat_walking(last_irr, asize, nclauses) ==
  LET last == IF last_irr = INVALID_REF THEN ToReference(asize) ELSE last_irr
  IN  IF ExceedsMaxRef(last) THEN FALSE
      ELSE IF ExceedsMaxRef(nclauses) THEN FALSE
      ELSE TRUE

\* the two early returns of kissat_walk
walk_declined(last_irr, asize, nclauses) ==
  LET last == IF last_irr = INVALID_REF THEN ToReference(asize) ELSE last_irr
  IN  ExceedsMaxRef(last) \/ ExceedsMaxRef(nclauses)

(***************************************************************************)
(* init_walker as a function of the host state it reads.                   *)
(***************************************************************************)
init_walker(hvalues, saved, target, stbl, wrm, act, bins, arn, last_irr, nclauses, nwalks) ==
  LET imp == import_decision_phases(Unassigned, saved, target, stbl, wrm, act)
      c1 == connect_binary_counters(EmptyConnection(arn), imp.values, bins,
                                    nclauses)
      c2 == connect_large_counters(c1, imp.values, hvalues, last_irr,
                                   nclauses)
      avg == kissat_average(c2.size, nclauses)
  IN  [saved |-> hvalues,
       values |-> imp.values,
       phases_saved |-> imp.saved,
       pol_activity |-> [lit \in Lits |-> 0],
       clauses |-> nclauses,
       refs |-> c2.refs,
       counters |-> c2.counters,
       watches |-> c2.watches,
       unsat |-> c2.unsat,
       arena |-> c2.arena,
       current |-> Len(c2.unsat),
       initial |-> Len(c2.unsat),
       minimum |-> Len(c2.unsat),
       size |-> avg,
       table |-> init_score_table(nwalks, avg),
       ok |-> c2.ok]

(***************************************************************************)
(* Evaluation of clauses, independent of the counters.                     *)
(***************************************************************************)
\* the value of a literal under the phases of its variable
PhaseValue(phases, lit) ==
  IF NEGATED(lit) THEN 0 - phases[IDX(lit)] ELSE phases[IDX(lit)]

\* the literals of a counter's clause that setup watched
ConnectedLits(counter_ref) ==
  LET lits == dereference_literals(refs, binaries, arena, counter_ref)
  IN  {lits[i] : i \in {j \in 1 .. Len(lits) : active[IDX(lits[j])]}}

CounterRefs == 0 .. (Len(refs) - 1)

\* connected clauses without a true literal under the walker's values
UnsatUnderValues(vals) ==
  {r \in CounterRefs : \A l \in ConnectedLits(r) : vals[l] # 1}

\* connected clauses without a true literal under saved phases
UnsatUnderPhases(phases) ==
  {r \in CounterRefs : \A l \in ConnectedLits(r) : PhaseValue(phases, l) # 1}

Min(a, b) == IF a < b THEN a ELSE b

(***************************************************************************)
(* Actions.                                                                *)
(***************************************************************************)
\* kissat_walk on an instance the walker declines.  A build with
\* assertions stops at assert (kissat_walking (solver)); a build without
\* them takes one of the two early returns.
KissatWalkDeclined ==
  /\ pc = "idle"
  /\ walk_declined(last_irredundant, arena_size, binirr)
  /\ \/ /\ kissat_walking(last_irredundant, arena_size, binirr)
        /\ pc' = "returned"
     \/ /\ ~kissat_walking(last_irredundant, arena_size, binirr)
        /\ pc' \in {"returned", "aborted"}
  /\ UNCHANGED <<host_vars, walker_vars, pre, seen_min, last_pick>>

\* kissat_walk up to the loop of local_search_round: warm-up, walking_phase
\* with INC (walks), dense mode, init_walker and init_walker_limit
KissatWalkSetup(budget) ==
  /\ pc = "idle"
  /\ ~walk_declined(last_irredundant, arena_size, binirr)
  /\ LET nwalks == stats.walks + 1
         iw == init_walker(values, phases_saved, phases_target, stable,
                           warmup, active, binaries, arena,
                           last_irredundant, binirr.lo, nwalks)
     IN  /\ IF kissat_walking(last_irredundant, arena_size, binirr)
            THEN pc' = "round"
            ELSE pc' \in {"round", "aborted"}
         /\ warmed' = warmup
         /\ dense' = TRUE
         /\ stats' = [stats EXCEPT !.walks = nwalks,
                                   !.walk_decisions = @ + 1]
         /\ wsaved' = iw.saved
         /\ values' = iw.values
         /\ pol_activity' = iw.pol_activity
         /\ phases_saved' = iw.phases_saved
         /\ clauses' = iw.clauses
         /\ refs' = iw.refs
         /\ counters' = iw.counters
         /\ watches' = iw.watches
         /\ unsat' = iw.unsat
         /\ arena' = iw.arena
         /\ current' = iw.current
         /\ initial' = iw.initial
         /\ minimum' = iw.minimum
         /\ size' = iw.size
         /\ table' = iw.table
         /\ assert_ok' = iw.ok
         /\ trail' = <<>>
         /\ best' = 0
         /\ limit' = stats.walk_steps + budget
         /\ flipped' = 0
         /\ seen_min' = Cardinality(
              {r \in 0 .. (Len(iw.refs) - 1) :
                 \A l \in Lits :
                   (\E i \in 1 .. Len(dereference_literals(iw.refs, binaries,
                                                         arena, r)) :
                      dereference_literals(iw.refs, binaries, arena, r)[i] = l)
                   => iw.values[l] # 1})
  /\ UNCHANGED <<phases_target, stable, warmup, active, binaries,
                 last_irredundant, arena_size, binirr, terminate, pre,
                 last_pick>>

\* the host asks for termination; TERMINATED polls this flag
RequestTermination ==
  /\ pc = "round"
  /\ ~terminate
  /\ terminate' = TRUE
  /\ UNCHANGED <<pc, values, phases_saved, phases_target, stable, warmup,
                 active, arena, binaries, last_irredundant, arena_size,
                 binirr, pol_activity, dense, watches, stats, warmed,
                 walker_vars, pre, seen_min, last_pick>>

\* the loop of local_search_round without the TERMINATED poll
round_continues_unpolled(min, lim, steps, term) ==
  min # 0 /\ lim > steps

\* the condition under which local_search_round starts another step
round_continues(min, lim, steps, term) ==
  min # 0 /\ lim > steps /\ ~term

\* one iteration of the loop of local_search_round: local_search_step with
\* the random draw r / RDen
LocalSearchStep(r) ==
  /\ pc = "round"
  /\ round_continues(minimum, limit, stats.walk_steps, terminate)
  /\ IF current = 0
     THEN \* assert (walker->current) fails, pick_literal divides by zero
          /\ pc' = "fault"
          /\ UNCHANGED <<host_vars, walker_vars, pre, seen_min, last_pick>>
     ELSE
     LET pick == pick_literal(values, refs, binaries, arena, counters,
                              watches, unsat, current, flipped + 1, table, r)
         flipvals == flip_values(values, pick.lit)
         w == flip_literal([counters |-> counters, unsat |-> unsat,
                            current |-> current, steps |-> 0,
                            make_steps |-> 0, res |-> FALSE, ok |-> TRUE],
                           values, watches, pick.lit)
         t == push_flipped([trail |-> trail, best |-> best,
                            saved |-> phases_saved, ok |-> TRUE], pick.lit)
         improved == w.current < minimum
         t2 == IF improved THEN update_best(t, flipvals) ELSE t
     IN  /\ pc' = "round"
         /\ last_pick' = [lit |-> pick.lit, pos |-> pick.pos,
                          counter_ref |-> pick.counter_ref,
                          steps |-> pick.steps,
                          make_steps |-> w.make_steps,
                          break_steps |-> w.steps - w.make_steps,
                          swaps |-> w.make_steps - 1
                                    - Len(watches[pick.lit]),
                          flip_ok |-> w.ok,
                          trail_ok |-> t2.ok,
                          flushed |-> IF t.best # INVALID_BEST
                                         /\ Len(t.trail) <= Len(trail)
                                      THEN Len(trail) + 1 - Len(t.trail)
                                      ELSE 0]
         /\ values' = flipvals
         /\ counters' = w.counters
         /\ unsat' = w.unsat
         /\ current' = w.current
         /\ minimum' = IF improved THEN w.current ELSE minimum
         /\ trail' = t2.trail
         /\ best' = t2.best
         /\ phases_saved' = t2.saved
         /\ flipped' = flipped + 2
         /\ stats' = [stats EXCEPT
                        !.flipped = @ + 1,
                        !.walk_steps = @ + pick.steps + w.steps]
         /\ assert_ok' = (assert_ok /\ pick.ok /\ w.ok /\ t2.ok)
         /\ seen_min' = Min(seen_min,
                            Cardinality(UnsatUnderValues(flipvals)))
         /\ UNCHANGED <<phases_target, stable, warmup, active, arena,
                        binaries, last_irredundant, arena_size, binirr,
                        pol_activity, dense, watches, warmed, terminate,
                        wsaved, refs, clauses, initial, limit, size, table,
                        pre>>

\* the while condition of local_search_round is false
ExitLoop ==
  /\ pc = "round"
  /\ ~(minimum # 0 /\ limit > stats.walk_steps)
  /\ pc' = "ended"
  /\ UNCHANGED <<host_vars, walker_vars, pre, seen_min, last_pick>>

\* TERMINATED (walk_terminated_1) breaks the loop
ExitTerminated ==
  /\ pc = "round"
  /\ minimum # 0 /\ limit > stats.walk_steps
  /\ terminate
  /\ pc' = "ended"
  /\ UNCHANGED <<host_vars, walker_vars, pre, seen_min, last_pick>>

SaveFinalMinimum ==
  /\ pc = "ended"
  /\ LET s == save_final_minimum([trail |-> trail, best |-> best,
                                  saved |-> phases_saved, ok |-> TRUE],
                                 minimum, initial)
     IN  /\ phases_saved' = s.t.saved
         /\ stats' = [stats EXCEPT
                        !.walk_improved = @ + (IF s.improved THEN 1 ELSE 0)]
         /\ assert_ok' = (assert_ok /\ s.t.ok /\ minimum <= initial)
  /\ pc' = "exported"
  /\ UNCHANGED <<values, phases_target, stable, warmup, active, arena,
                 binaries, last_irredundant, arena_size, binirr,
                 pol_activity, dense, watches, warmed, terminate,
                 wsaved, refs, counters, unsat, trail, best, clauses,
                 current, initial, minimum, limit, flipped, size, table,
                 pre, seen_min, last_pick>>

\* release_walker that leaves the walker's vector installed
release_values_not_restored(walker_saved, walker_values) == walker_values

\* the vector solver->values points to after release_walker
release_values(walker_saved, walker_values) == walker_saved

\* release_walker, then kissat_resume_sparse_mode
ReleaseWalker ==
  /\ pc = "exported"
  /\ pc' = "done"
  /\ values' = release_values(wsaved, values)
  /\ table' = NoTable
  /\ refs' = <<>>
  /\ counters' = <<>>
  /\ unsat' = <<>>
  /\ trail' = <<>>
  /\ dense' = FALSE
  /\ watches' = [lit \in Lits |-> <<>>]
  /\ UNCHANGED <<phases_saved, phases_target, stable, warmup, active, arena,
                 binaries, last_irredundant, arena_size, binirr,
                 pol_activity, stats, warmed, terminate, wsaved, best,
                 clauses, current, initial, minimum, limit, flipped, size,
                 assert_ok, pre, seen_min, last_pick>>

Next ==
  \/ KissatWalkDeclined
  \/ \E budget \in {MaxBudget \div 4, MaxBudget} : KissatWalkSetup(budget)
  \/ RequestTermination
  \/ \E r \in 0 .. (RDen - 1) : LocalSearchStep(r)
  \/ ExitLoop
  \/ ExitTerminated
  \/ SaveFinalMinimum
  \/ ReleaseWalker

Spec == Init /\ [][Next]_vars

(***************************************************************************)
(* Properties.                                                             *)
(***************************************************************************)
\* the walker exists: after setup and before release_walker
Live == pc \in {"round", "ended", "exported"}

\* the literals of a counter's clause, as a sequence
ClauseLits(counter_ref) ==
  dereference_literals(refs, binaries, arena, counter_ref)

\* C1: after save_final_minimum, on every exit of the round, evaluating
\* phases.saved on the clauses the walker connected gives exactly `minimum`
\* unsatisfied clauses.
ExportCorrectness ==
  pc = "exported" =>
    Cardinality(UnsatUnderPhases(phases_saved)) = minimum

\* an improved minimum that save_final_minimum wrote from the trail prefix
ExportFromTrailReached ==
  /\ pc = "exported"
  /\ 0 < minimum /\ minimum < initial
  /\ best # 0 /\ best # INVALID_BEST

\* C2 (invariant B): after setup, after every flip and at round end every
\* counter's count is the number of literals of its clause with value +1.
InvariantB ==
  Live =>
    \A r \in CounterRefs :
      counters[r + 1].count = CountValue(ClauseLits(r), values, 1)

\* after a flip some clause has two true literals and another has none
CountsAfterFlipReached ==
  /\ pc = "round"
  /\ stats.flipped > 0
  /\ \E r \in CounterRefs : counters[r + 1].count >= 2
  /\ \E r \in CounterRefs : counters[r + 1].count = 0

\* C3 (invariant A): a counter_ref is in the unsat stack iff its count is
\* 0, it is there once, at the index its pos field stores.
InvariantA ==
  Live =>
    /\ \A r \in CounterRefs :
         (counters[r + 1].count = 0) <=> (\E i \in 1 .. Len(unsat) : unsat[i] = r)
    /\ \A i, j \in 1 .. Len(unsat) : unsat[i] = unsat[j] => i = j
    /\ \A i \in 1 .. Len(unsat) :
         /\ unsat[i] \in CounterRefs
         /\ counters[unsat[i] + 1].pos = i - 1

\* a flip whose make pass moved the top of the stack into a freed slot
SwapReached ==
  /\ pc = "round"
  /\ last_pick.swaps > 0
  /\ Len(unsat) >= 1

\* C5: the host's values vector is set aside during the round, is never
\* written, and is the solver's values again after release_walker.
HostValuesRestored ==
  /\ Live => wsaved = pre.values
  /\ pc = "done" => values = pre.values

\* a walk with flips on an instance with root-level values has returned
RestoredAfterFlipsReached ==
  /\ pc = "done"
  /\ stats.flipped > 0
  /\ \E lit \in Lits : values[lit] # 0

\* C4: after kissat_walk returns only phases.saved, garbage flags of
\* clauses satisfied by the pre-walk assignment and statistics differ from
\* the state before the call; values and pol_activity hold what they held.
WalkFrame ==
  pc = "done" =>
    /\ values = pre.values
    /\ pol_activity = pre.pol_activity
    /\ ~dense
    /\ \A lit \in Lits : watches[lit] = <<>>
    /\ Len(arena) = Len(pre.arena)
    /\ \A k \in 1 .. Len(arena) :
         /\ arena[k].lits = pre.arena[k].lits
         /\ arena[k].redundant = pre.arena[k].redundant
         /\ arena[k].garbage # pre.arena[k].garbage =>
              \E i \in 1 .. Len(arena[k].lits) :
                pre.values[arena[k].lits[i]] > 0

\* C6: on an instance the walker declines, kissat_walk returns without an
\* assertion failure, runs neither warm-up nor a round and leaves phases,
\* values, clause flags and watch lists as they were.
RefusePathClean ==
  walk_declined(last_irredundant, arena_size, binirr) =>
    /\ pc \in {"idle", "returned"}
    /\ ~warmed
    /\ stats.walks = 0 /\ stats.flipped = 0
    /\ phases_saved = pre.phases_saved
    /\ values = pre.values
    /\ arena = pre.arena
    /\ ~dense
    /\ \A lit \in Lits : watches[lit] = <<>>

\* w <= MAX_WALK_REF, as a comparison of numbers
WideLeqMax(w) == w.hi = 0 /\ w.lo <= MAX_WALK_REF

\* kissat_walk got past its gate and set the walker up
RoundRun == pc \in {"round", "ended", "exported", "done", "fault"}

\* C7 as stated: kissat_walking is true iff the last_irredundant field and
\* BINIRR_CLAUSES are both at most MAX_REF, sentinel included, and
\* kissat_walk runs a round exactly when kissat_walking is true.
WalkingIffFieldFits ==
  /\ kissat_walking(last_irredundant, arena_size, binirr)
       <=> (WideLeqMax(last_irredundant) /\ WideLeqMax(binirr))
  /\ RoundRun => kissat_walking(last_irredundant, arena_size, binirr)
  /\ pc \in {"returned", "aborted"} =>
       ~kissat_walking(last_irredundant, arena_size, binirr)

\* the reference the gate compares: the field, or the arena size as a 32
\* bit reference when the field is the INVALID_REF sentinel
EffectiveLast ==
  IF last_irredundant.hi = 1 /\ last_irredundant.lo = MAX_WALK_REF
  THEN [hi |-> arena_size.hi % 2, lo |-> arena_size.lo]
  ELSE last_irredundant

\* C7 (amended): kissat_walking is true iff the effective last irredundant
\* reference and BINIRR_CLAUSES are both at most MAX_REF, and kissat_walk
\* runs a round exactly when kissat_walking is true.
WalkingIffEffectiveFits ==
  /\ kissat_walking(last_irredundant, arena_size, binirr)
       <=> (WideLeqMax(EffectiveLast) /\ WideLeqMax(binirr))
  /\ RoundRun => kissat_walking(last_irredundant, arena_size, binirr)
  /\ pc \in {"returned", "aborted"} =>
       ~kissat_walking(last_irredundant, arena_size, binirr)

\* a round runs although the last_irredundant field is the sentinel
SentinelRoundReached ==
  /\ pc = "round"
  /\ last_irredundant = INVALID_REF
  /\ stats.flipped > 0

\* a local-search step happened in this transition
Stepped == stats.flipped' # stats.flipped

\* C8: a step starts only when minimum > 0, walk_steps < limit and the
\* termination predicate is false at that boundary; with no unsatisfied
\* clause after setup the round flips nothing, and no flip follows
\* minimum = 0.
StepOnlyWhenAllowed ==
  /\ [][(Stepped \/ (pc = "round" /\ values' # values)) =>
          /\ minimum > 0
          /\ stats.walk_steps < limit
          /\ ~terminate]_vars
  /\ []((Live /\ initial = 0) => stats.flipped = 0)

\* the round ended because the minimum reached 0 with budget left
MinimumZeroExitReached ==
  /\ pc = "ended"
  /\ minimum = 0
  /\ stats.flipped > 0
  /\ limit > stats.walk_steps
  /\ ~terminate

\* C10: at every step boundary minimum is the fewest unsatisfied clauses
\* seen at a boundary since setup; it never increases, is at most initial
\* and at most current, so a step never starts with current = 0.
MinimumTracksBest ==
  /\ [](Live => /\ minimum = seen_min
                /\ minimum <= initial
                /\ minimum <= current
                /\ current = Cardinality(UnsatUnderValues(values)))
  /\ []((pc = "round" /\ minimum # 0) => current > 0)
  /\ [](pc # "fault")
  /\ [][pc = "round" => minimum' <= minimum]_vars

\* the walk improved on the initial count and then got worse again
WorseThanMinimumReached ==
  /\ pc = "round"
  /\ minimum < initial
  /\ minimum < current

\* C9: every round terminates: each step adds at least 1 to walk_steps in
\* each of pick, make pass and break pass, so with every step the distance
\* from walk_steps to the fixed limit shrinks, and a step starts only while
\* that distance is positive.
RoundTerminates ==
  [][Stepped =>
       /\ last_pick'.steps >= 1
       /\ last_pick'.make_steps >= 1
       /\ last_pick'.break_steps >= 1
       /\ stats'.walk_steps = stats.walk_steps + last_pick'.steps
                              + last_pick'.make_steps
                              + last_pick'.break_steps
       /\ limit' = limit
       /\ limit - stats.walk_steps > 0
       /\ limit - stats'.walk_steps < limit - stats.walk_steps]_vars

\* the budget ran out: no termination request, minimum never reached 0
BudgetExhaustedReached ==
  /\ pc = "ended"
  /\ minimum > 0
  /\ ~terminate
  /\ stats.flipped > 1
  /\ stats.walk_steps >= limit

\* the step boundaries of a round: after setup and after every step
Boundary == pc \in {"round", "ended"}

\* C11: while the walker exists, a valid best marker is at most the trail
\* length and the trail holds at most VARS / 4 + 1 literals; with an
\* invalid marker the trail is empty.
TrailBounds ==
  Live =>
    /\ best # INVALID_BEST =>
         /\ 0 <= best
         /\ best <= Len(trail)
         /\ Len(trail) <= VARS \div 4 + 1
    /\ best = INVALID_BEST => trail = <<>>

\* the trail is full and its marker sits behind the first flip
TrailFullReached ==
  /\ pc = "round"
  /\ Len(trail) = VARS \div 4 + 1
  /\ 0 < best /\ best < Len(trail)

\* the walker core of the current state, as flip_literal takes it
WalkerCore ==
  [counters |-> counters, unsat |-> unsat, current |-> current,
   steps |-> 0, make_steps |-> 0, res |-> FALSE, ok |-> TRUE]

\* flip_literal (flip) followed by flip_literal (NOT (flip))
FlipTwice(flip) ==
  LET w1 == flip_literal(WalkerCore, values, watches, flip)
      v1 == flip_values(values, flip)
      w2 == flip_literal(w1, v1, watches, NOT(flip))
  IN  [values |-> flip_values(v1, NOT(flip)), counters |-> w2.counters,
       unsat |-> w2.unsat, current |-> w2.current, ok |-> w2.ok]

\* the elements of a stack
StackSet(s) == {s[i] : i \in 1 .. Len(s)}

\* C12 as stated: flipping a false literal L and then NOT L restores the
\* assignment, every count and the unsat index exactly: the same sequence
\* of counter_refs and the same pos of every unsatisfied counter.
FlipInvolutionExact ==
  Live =>
    \A flip \in Lits :
      values[flip] < 0 =>
        LET f == FlipTwice(flip)
        IN  /\ f.values = values
            /\ \A r \in CounterRefs :
                 f.counters[r + 1].count = counters[r + 1].count
            /\ f.unsat = unsat
            /\ \A i \in 1 .. Len(unsat) :
                 f.counters[unsat[i] + 1].pos = counters[unsat[i] + 1].pos

\* C12 (amended): flipping a false literal L and then NOT L restores the
\* assignment, every count, the number and the set of unsatisfied
\* counter_refs; the stack is again free of duplicates with every element
\* at its pos, but its order may differ from the order before.
FlipInvolutionUpToOrder ==
  Live =>
    \A flip \in Lits :
      values[flip] < 0 =>
        LET f == FlipTwice(flip)
        IN  /\ f.ok
            /\ f.values = values
            /\ \A r \in CounterRefs :
                 f.counters[r + 1].count = counters[r + 1].count
            /\ StackSet(f.unsat) = StackSet(unsat)
            /\ Len(f.unsat) = Len(unsat)
            /\ f.current = current
            /\ \A i \in 1 .. Len(f.unsat) :
                 f.counters[f.unsat[i] + 1].pos = i - 1

\* a walker state in which a double flip brings the same unsatisfied
\* clauses back in another order
ReorderingFlipReached ==
  /\ pc = "round"
  /\ Len(unsat) >= 2
  /\ \E flip \in Lits :
       /\ values[flip] < 0
       /\ FlipTwice(flip).unsat # unsat
       /\ StackSet(FlipTwice(flip).unsat) = StackSet(unsat)

\* the break counts scale_score is examined on: the table and beyond
BreakCounts == 0 .. (table.exponents + ExtraBreaks)

\* the literals pick_literal scores at this boundary and their break values
PickedClauseLits ==
  assigned_literals(ClauseLits(PEEK_STACK(unsat, (flipped + 1) % current)),
                    values)

BreaksOf(lit) == break_value(counters, watches, lit).res

\* C13 as stated: scale_score(b1) >= scale_score(b2) if and only if
\* b1 <= b2, for all break counts including those at or above the table
\* size, and scale_score is strictly positive.
ScoreOrderIff ==
  Live =>
    /\ \A b \in BreakCounts : scale_score(table, b) > 0
    /\ \A b1, b2 \in BreakCounts :
         (scale_score(table, b1) >= scale_score(table, b2)) <=> (b1 <= b2)

\* C13 (amended): scale_score is strictly positive and non-increasing;
\* it is strictly decreasing on the table and constant, equal to epsilon
\* (the last table entry), from the last table index on.
ScoreMonotone ==
  Live =>
    /\ table.exponents >= 1
    /\ table.exponents = Len(table.table)
    /\ \A b \in BreakCounts : scale_score(table, b) > 0
    /\ \A b1, b2 \in BreakCounts :
         b1 <= b2 => scale_score(table, b1) >= scale_score(table, b2)
    /\ \A b1, b2 \in BreakCounts :
         (b1 < b2 /\ b2 < table.exponents)
           => scale_score(table, b1) > scale_score(table, b2)
    /\ \A b \in BreakCounts :
         b >= table.exponents - 1 => scale_score(table, b) = table.epsilon

\* a pick that scores one literal from the table and another, with a break
\* count at or above the table size, by epsilon
EpsilonScoreReached ==
  /\ pc = "round"
  /\ round_continues(minimum, limit, stats.walk_steps, terminate)
  /\ table.exponents >= 2
  /\ \E i, j \in 1 .. Len(PickedClauseLits) :
       /\ BreaksOf(PickedClauseLits[i]) >= table.exponents
       /\ BreaksOf(PickedClauseLits[j]) < table.exponents

\* init_walker run on the host state kissat_walk was called on
SetupOnStart ==
  init_walker(pre.values, pre.phases_saved, phases_target, stable, warmup,
              active, binaries, pre.arena, last_irredundant, binirr.lo,
              stats.walks)

\* init_walker run on the host state a setup left behind: the host values
\* it set aside, the saved phases it wrote and the clauses it marked
SetupOnLeftBehind ==
  init_walker(wsaved, phases_saved, phases_target, stable, warmup, active,
              binaries, arena, last_irredundant, binirr.lo, stats.walks + 1)

\* a setup result agrees with the walker on the counter_ref-to-clause
\* mapping, on every count and on the set of unsatisfied counter_refs
SameConnection(iw) ==
  /\ iw.refs = refs
  /\ Len(iw.counters) = Len(counters)
  /\ \A r \in CounterRefs : iw.counters[r + 1].count = counters[r + 1].count
  /\ StackSet(iw.unsat) = StackSet(unsat)

\* C14: with no flip since setup, a second setup on the host state the
\* first one started from, or on the state it left behind, gives the same
\* counter_ref-to-clause mapping, the same counts and the same set of
\* unsatisfied counter_refs.
SetupIdempotent ==
  (Live /\ stats.flipped = 0) =>
    /\ SameConnection(SetupOnStart)
    /\ SameConnection(SetupOnLeftBehind)
    /\ SetupOnLeftBehind.ok

\* a setup that marked a satisfied clause as garbage, overwrote a saved
\* phase and found unsatisfied clauses
SetupLeftMarksReached ==
  /\ pc = "round"
  /\ stats.flipped = 0
  /\ arena # pre.arena
  /\ phases_saved # pre.phases_saved
  /\ Len(unsat) > 0
  /\ Len(refs) > Len(unsat)

\* C15: while the walker exists, after the import and after every flip,
\* the two literals of a variable have opposite values; an active variable
\* has a non-zero value and an inactive variable has value 0 on both of
\* its literals.
AssignmentShape ==
  Live =>
    \A lit \in Lits :
      /\ values[lit] \in {-1, 0, 1}
      /\ values[lit] = 0 - values[NOT(lit)]
      /\ active[IDX(lit)] => values[lit] # 0
      /\ ~active[IDX(lit)] => values[lit] = 0

\* after flips, with an inactive variable the host has fixed at the root
\* level and inactive variables that occur in no clause
ShapeAfterFlipsReached ==
  /\ pc = "round"
  /\ stats.flipped > 1
  /\ \E idx \in Vars : ~active[idx] /\ wsaved[LIT(idx)] # 0
  /\ \E idx \in Vars : ~active[idx] /\ wsaved[LIT(idx)] = 0
  /\ values # SetupOnStart.values

\* C16: flipped is 0 before the first step and advances by exactly one per
\* local-search step, the k-th step of a round (k = 0, 1, ...) picks the
\* clause at index k mod |unsat| of the unsat stack as it stands at the
\* start of the step, and at round end flipped is the number of literals
\* flipped.
RoundRobinSelection ==
  /\ []((Live /\ stats.flipped = 0) => flipped = 0)
  /\ [][Stepped =>
          /\ flipped' = flipped + 1
          /\ last_pick'.pos = stats.flipped % Len(unsat)
          /\ last_pick'.counter_ref = PEEK_STACK(unsat, last_pick'.pos)]_vars
  /\ [](pc = "ended" => flipped = stats.flipped)

\* lit is a literal of the clause of counter_ref
InClause(lit, counter_ref) ==
  \E i \in 1 .. Len(ClauseLits(counter_ref)) : ClauseLits(counter_ref)[i] = lit

\* C17: in a flip all pops of the make pass come before all pushes of the
\* break pass: the clauses the flip breaks end up on top of the stack in
\* watch order, above what is left of the old stack; every pop_unsat finds
\* its assertions true, and after the flip current = |unsat|.
MakeBeforeBreak ==
  /\ [](Live => (current = Len(unsat) /\ last_pick.flip_ok))
  /\ [][Stepped =>
          LET lit == last_pick'.lit
              ws == watches[NOT(lit)]
              made == {r \in StackSet(unsat) : InClause(lit, r)}
              broken == {k \in 1 .. Len(ws) : counters'[ws[k] + 1].count = 0}
              kept == Len(unsat') - Cardinality(broken)
          IN  /\ made # {}
              /\ kept = Len(unsat) - Cardinality(made)
              /\ {unsat'[i] : i \in 1 .. kept} = StackSet(unsat) \ made
              /\ \A i \in (kept + 1) .. Len(unsat') :
                   /\ \E k \in broken : ws[k] = unsat'[i]
                   /\ \A j \in (kept + 1) .. Len(unsat') :
                        \A k1, k2 \in broken :
                          (ws[k1] = unsat'[i] /\ ws[k2] = unsat'[j]
                             /\ i < j) => k1 < k2]_vars

\* a flip that popped with a swap and then pushed a clause it broke
PopThenPushReached ==
  /\ pc = "round"
  /\ last_pick.swaps > 0
  /\ \E i \in 1 .. Len(unsat) : InClause(NOT(last_pick.lit), unsat[i])

\* the clause pick_literal draws for the step that starts at this boundary
PickedRef == PEEK_STACK(unsat, (flipped + 1) % current)

\* the scoring of the picked clause: its literals in stored order, the
\* indices of those with a non-zero value (the scored ones), and for every
\* index the sum of the scores of the scored literals up to it
PickScores ==
  LET lits == ClauseLits(PickedRef)
      sc == [i \in 1 .. Len(lits) |->
               IF values[lits[i]] # 0
               THEN scale_score(table, BreaksOf(lits[i]))
               ELSE 0]
  IN  [lits |-> lits,
       scored |-> {i \in 1 .. Len(lits) : values[lits[i]] # 0},
       cum |-> [i \in 1 .. Len(lits) |-> SumSeq([j \in 1 .. i |-> sc[j]])],
       total |-> SumSeq(sc)]

\* the scored indices whose cumulative score exceeds the threshold
\* sum * random of the draw random = r / RDen
ExceedingAt(ps, r) ==
  {i \in ps.scored : ps.cum[i] > RoundHalfEven(ps.total * r, RDen)}

\* the pick of the current state for draw r
PickOf(r) ==
  pick_literal(values, refs, binaries, arena, counters, watches, unsat, current, flipped + 1, table, r)

\* C18: with a non-empty unsat stack pick_literal returns, for every draw,
\* a literal of the chosen unsatisfied clause with value -1: the first
\* non-zero-valued literal in stored order whose cumulative score exceeds
\* the threshold, or the last non-zero-valued literal when none does.
PickSound ==
  (pc = "round" /\ current > 0) =>
    LET ps == PickScores
    IN  /\ counters[PickedRef + 1].count = 0
        /\ ps.scored # {}
        /\ \A r \in 0 .. (RDen - 1) :
             LET p == PickOf(r)
                 over == ExceedingAt(ps, r)
             IN  /\ p.ok
                 /\ p.counter_ref = PickedRef
                 /\ p.lit # -1
                 /\ values[p.lit] = -1
                 /\ \E i \in ps.scored :
                      /\ p.lit = ps.lits[i]
                      /\ IF over # {}
                         THEN i \in over /\ \A j \in over : i <= j
                         ELSE \A j \in ps.scored : j <= i

\* a step is about to pick from a clause that ends in a zero-valued
\* literal, where one draw selects a literal by its cumulative score and
\* another finds no cumulative score above the threshold
FallbackPickReached ==
  /\ pc = "round"
  /\ round_continues(minimum, limit, stats.walk_steps, terminate)
  /\ stats.flipped > 0
  /\ Len(PickScores.lits) \notin PickScores.scored
  /\ \E r \in 0 .. (RDen - 1) : ExceedingAt(PickScores, r) = {}
  /\ \E r \in 0 .. (RDen - 1) :
       /\ ExceedingAt(PickScores, r) # {}
       /\ PickOf(r).lit # PickScores.lits[1]

\* the phases after the literals flips[1 .. n] have been made true in
\* order: the last flip of a variable decides its phase
ApplyFlips(phases, flips, n) ==
  [idx \in Vars |->
     LET at == {i \in 1 .. n : IDX(flips[i]) = idx}
     IN  IF at = {} THEN phases[idx]
         ELSE LET m == CHOOSE i \in at : \A j \in at : j <= i
              IN  IF NEGATED(flips[m]) THEN -1 ELSE 1]

\* C19: at every step boundary with a valid best marker, phases.saved with
\* the flips trail[0..best) applied in order leaves exactly `minimum`
\* connected clauses unsatisfied, and with the whole trail applied it is
\* the walker's current assignment of the active variables; with an
\* invalid marker phases.saved itself leaves exactly `minimum` unsatisfied.
ReconstructionInvariant ==
  Boundary =>
    IF best # INVALID_BEST
    THEN /\ best <= Len(trail)
         /\ Cardinality(UnsatUnderPhases(ApplyFlips(phases_saved, trail,
                                                    best))) = minimum
         /\ \A idx \in Vars :
              active[idx] =>
                ApplyFlips(phases_saved, trail, Len(trail))[idx]
                  = values[LIT(idx)]
    ELSE Cardinality(UnsatUnderPhases(phases_saved)) = minimum

\* after a flush or a direct save rewrote phases.saved, the best
\* assignment is again a non-empty prefix of the trail away from it
PrefixAfterSaveReached ==
  /\ pc = "round"
  /\ best # INVALID_BEST
  /\ 0 < best
  /\ minimum < initial
  /\ phases_saved # SetupOnStart.phases_saved

\* C20: a step that starts with |trail| = VARS / 4 + 1 and 0 < best <=
\* |trail| writes the polarities of trail[0..best) into phases.saved in
\* order, moves the other |trail| - best entries to the front in their
\* order and appends the flipped literal, so the trail has |trail| - best
\* + 1 entries; best becomes 0 (and the new trail length if the flip
\* improved the minimum); the assertions of save_walker_trail hold.
TrailFlush ==
  [][(/\ Stepped
      /\ best # INVALID_BEST
      /\ Len(trail) = VARS \div 4 + 1
      /\ 0 < best /\ best <= Len(trail)) =>
       LET kept == Len(trail) - best
       IN  /\ phases_saved' = ApplyFlips(phases_saved, trail, best)
           /\ Len(trail') = kept + 1
           /\ \A i \in 1 .. kept : trail'[i] = trail[best + i]
           /\ trail'[kept + 1] = last_pick'.lit
           /\ best' = IF minimum' < minimum THEN Len(trail') ELSE 0
           /\ last_pick'.flushed = best
           /\ last_pick'.trail_ok]_vars

\* a flush that saved a prefix and kept at least two literals, in front of
\* the literal just flipped
FlushKeptTwoReached ==
  /\ pc = "round"
  /\ last_pick.flushed >= 1
  /\ Len(trail) >= 3
  /\ trail[Len(trail)] = last_pick.lit

\* phases.saved overwritten by every non-zero value of vals
AllValuesSaved(phases, vals) ==
  [idx \in Vars |->
     IF vals[LIT(idx)] # 0 THEN vals[LIT(idx)] ELSE phases[idx]]

\* C21: a step that starts with |trail| = VARS / 4 + 1 and best = 0 clears
\* the trail without pushing the flipped literal and makes best INVALID;
\* a step that starts with best = INVALID leaves the trail empty and
\* phases.saved unchanged unless it improves the minimum; the improving
\* step (which may be the invalidating step itself) copies every non-zero
\* value into phases.saved and sets best = 0; from then on a step appends
\* its flipped literal to the trail again.
TrailInvalidation ==
  /\ [][(/\ Stepped
         /\ \/ best = INVALID_BEST
            \/ best = 0 /\ Len(trail) = VARS \div 4 + 1) =>
          /\ trail' = <<>>
          /\ last_pick'.trail_ok
          /\ IF current' < minimum
             THEN /\ best' = 0
                  /\ phases_saved' = AllValuesSaved(phases_saved, values')
                  /\ \A idx \in Vars :
                       active[idx] => phases_saved'[idx] = values'[LIT(idx)]
             ELSE /\ best' = INVALID_BEST
                  /\ phases_saved' = phases_saved]_vars
  /\ [][(/\ Stepped
         /\ best # INVALID_BEST
         /\ Len(trail) < VARS \div 4 + 1) =>
          /\ trail' = Append(trail, last_pick'.lit)
          /\ phases_saved' = phases_saved]_vars

\* an improvement found with an invalid marker has just copied the whole
\* assignment into phases.saved and made the empty trail valid again, and
\* the round goes on to a step that will be recorded
RevalidatedReached ==
  /\ pc = "round"
  /\ stats.flipped > VARS \div 4 + 1
  /\ best = 0
  /\ trail = <<>>
  /\ phases_saved = AllValuesSaved(phases_saved, values)
  /\ phases_saved # SetupOnStart.phases_saved
  /\ round_continues(minimum, limit, stats.walk_steps, terminate)
  /\ current > 0

\* C22: setup gives every active variable v the phase p = target[v] when
\* the solver is stable, warmup is disabled and target[v] # 0, otherwise
\* saved[v] when non-zero, otherwise INITIAL_PHASE; it writes p to the
\* value of the positive literal, -p to the negative literal and p to
\* phases.saved[v]; saved phases and values of inactive variables stay.
PhaseImport ==
  (Live /\ stats.flipped = 0) =>
    \A idx \in Vars :
      IF active[idx]
      THEN LET p == IF stable /\ ~warmup /\ phases_target[idx] # 0
                    THEN phases_target[idx]
                    ELSE IF pre.phases_saved[idx] # 0
                    THEN pre.phases_saved[idx]
                    ELSE INITIAL_PHASE
           IN  /\ values[LIT(idx)] = p
               /\ values[NOT(LIT(idx))] = 0 - p
               /\ phases_saved[idx] = p
      ELSE /\ phases_saved[idx] = pre.phases_saved[idx]
           /\ values[LIT(idx)] = 0
           /\ values[NOT(LIT(idx))] = 0

\* an import in stable mode without warmup that took a target phase against
\* a different saved phase, fell back to the saved phase of a variable
\* without target phase, and passed over an inactive variable with a saved
\* phase
TargetOverSavedReached ==
  /\ pc = "round"
  /\ stats.flipped = 0
  /\ stable /\ ~warmup
  /\ \E idx \in Vars :
       /\ active[idx]
       /\ phases_target[idx] # 0
       /\ pre.phases_saved[idx] = 0 - phases_target[idx]
  /\ \E idx \in Vars :
       /\ active[idx]
       /\ phases_target[idx] = 0
       /\ pre.phases_saved[idx] = -1
  /\ \E idx \in Vars : ~active[idx] /\ pre.phases_saved[idx] # 0

\* every literal of lits has walker value 0
AllZero(lits) == \A i \in 1 .. Len(lits) : values[lits[i]] = 0

\* the binary clauses and the arena clauses without a non-zero-valued
\* literal, as the tagged references a counter would carry
ZeroClauses ==
  {make_tagged(TRUE, k - 1) : k \in {j \in 1 .. Len(binaries) :
                                       AllZero(binaries[j])}}
  \cup {make_tagged(FALSE, k) : k \in {j \in 1 .. Len(arena) :
                                         AllZero(arena[j].lits)}}

\* C23: while the walker exists, a binary or large clause all of whose
\* literals have walker value 0 has no counter, so it is never in the
\* unsat stack and is not among the clauses that initial, current and
\* minimum count.
ZeroClausesSkipped ==
  Live =>
    /\ \A r \in CounterRefs :
         /\ refs[r + 1] \notin ZeroClauses
         /\ ~AllZero(ClauseLits(r))
    /\ \A i \in 1 .. Len(unsat) : unsat[i] \in CounterRefs
    /\ current = Len(unsat)
    /\ LET iw == SetupOnStart
       IN  /\ initial = Len(iw.unsat)
           /\ \A i \in 1 .. Len(iw.unsat) :
                iw.refs[iw.unsat[i] + 1] \notin ZeroClauses
    /\ minimum <= initial

\* a round with flips over clauses among which a binary and a large clause
\* have only zero-valued literals
ZeroClausesReached ==
  /\ pc = "round"
  /\ stats.flipped > 0
  /\ \E t \in ZeroClauses : t.binary
  /\ \E t \in ZeroClauses : ~t.binary /\ ~pre.arena[t.ref].garbage
                            /\ ~pre.arena[t.ref].redundant
  /\ Len(unsat) > 0

\* the arena clauses connect_large_counters looks at: not garbage and not
\* redundant before the walk, at or before last_irredundant
Eligible(k) ==
  /\ ~pre.arena[k].garbage
  /\ ~pre.arena[k].redundant
  /\ (last_irredundant = INVALID_REF \/ k <= last_irredundant.lo)

\* some literal of arena clause k is true under the host's pre-walk values
HostSatisfied(k) ==
  \E i \in 1 .. Len(pre.arena[k].lits) : pre.values[pre.arena[k].lits[i]] > 0

\* the counter_refs that refer to arena clause k
LargeCounters(k) ==
  {r \in CounterRefs : refs[r + 1] = make_tagged(FALSE, k)}

\* number of occurrences of counter_ref in the watch list of lit
WatchCount(lit, counter_ref) ==
  Cardinality({i \in 1 .. Len(watches[lit]) : watches[lit][i] = counter_ref})

\* C24: once setup has run, an arena clause is marked garbage by the walk
\* exactly if it was eligible and has a literal true under the host's
\* pre-walk values, also during the steps and after the walker exited;
\* while the walker exists such a clause has no counter and every other
\* eligible clause has exactly one, found once in the watch list of each
\* of its non-zero-valued literals; other clauses have no counter.
LargeConnection ==
  RoundRun =>
    /\ Len(arena) = Len(pre.arena)
    /\ \A k \in 1 .. Len(arena) :
         /\ arena[k].lits = pre.arena[k].lits
         /\ arena[k].redundant = pre.arena[k].redundant
         /\ arena[k].garbage
              <=> (pre.arena[k].garbage \/ (Eligible(k) /\ HostSatisfied(k)))
         /\ Live =>
              IF Eligible(k) /\ ~HostSatisfied(k)
              THEN /\ Cardinality(LargeCounters(k)) = 1
                   /\ \A r \in LargeCounters(k) :
                        \A i \in 1 .. Len(arena[k].lits) :
                          values[arena[k].lits[i]] # 0 =>
                            WatchCount(arena[k].lits[i], r) = 1
              ELSE LargeCounters(k) = {}

\* the walker has exited after flips and left behind the garbage mark of a
\* clause satisfied by the host, next to a clause it had connected, a
\* satisfied clause it did not look at and a clause that was garbage before
MarksRemainReached ==
  /\ pc = "done"
  /\ stats.flipped > 0
  /\ \E k \in 1 .. Len(arena) : arena[k].garbage /\ ~pre.arena[k].garbage
  /\ \E k \in 1 .. Len(arena) : Eligible(k) /\ ~arena[k].garbage
  /\ \E k \in 1 .. Len(arena) : pre.arena[k].garbage
  /\ \E k \in 1 .. Len(arena) :
       ~Eligible(k) /\ ~pre.arena[k].garbage /\ ~arena[k].garbage

RECURSIVE Gcd(_, _)
Gcd(a, b) == IF b = 0 THEN a ELSE Gcd(b, a % b)

\* a fraction with positive denominator in lowest terms
Lowest(f) ==
  LET g == Gcd(IF f.num < 0 THEN 0 - f.num ELSE f.num, f.den)
  IN  Frac(f.num \div g, f.den \div g)

\* two fractions are the same number
FracEq(a, b) == Lowest(a) = Lowest(b)

\* the score table init_score_table builds from the multiplier cb
TableOf(cb) ==
  LET tab == score_entries(One, cb)
  IN  [table |-> tab, exponents |-> Len(tab), epsilon |-> tab[Len(tab)]]

\* C25 as stated: with the walks counter as incremented at the start of the
\* walking phase, cb is 2.0 when the counter is odd and
\* fit_cbval (average clause size) when it is even.
OddWalksUseTwo ==
  Live =>
    LET cb == break_multiplier(stats.walks, size)
    IN  IF stats.walks % 2 = 1
        THEN FracEq(cb, Frac(2, 1))
        ELSE FracEq(cb, fit_cbval(size))

\* C25 (amended): with the walks counter as incremented at the start of the
\* walking phase, cb is fit_cbval (average clause size) when the counter is
\* odd and 2.0 when it is even, and the score table is built from that cb.
OddWalksUseFit ==
  Live =>
    LET cb == break_multiplier(stats.walks, size)
        expected == IF stats.walks % 2 = 1 THEN fit_cbval(size)
                    ELSE Frac(2, 1)
    IN  /\ stats.walks >= 1
        /\ FracEq(cb, expected)
        /\ table = TableOf(expected)

\* a round on an odd walk whose fitted multiplier is not 2.0
FittedMultiplierReached ==
  /\ pc = "round"
  /\ stats.flipped > 0
  /\ stats.walks % 2 = 1
  /\ size.num > 0
  /\ ~FracEq(fit_cbval(size), Frac(2, 1))
  /\ table = TableOf(fit_cbval(size))


\* the literal occurrences setup connected: for every counter the number
\* of non-zero-valued literals of its clause
ConnectedOccurrences ==
  SumSeq([r \in 1 .. Len(refs) |->
            Cardinality({i \in 1 .. Len(ClauseLits(r - 1)) :
                           values[ClauseLits(r - 1)[i]] # 0})])

\* C26: the average clause size the score table is built from is the
\* number of literal occurrences connected divided by the number of
\* counters connected, also when setup skipped binary clauses with a
\* zero-valued literal or culled satisfied large clauses.
AverageOverConnected ==
  Live => FracEq(size, kissat_average(ConnectedOccurrences, Len(refs)))

====
